---- MODULE Spec2Model ----
(***************************************************************************)
(* Model of crypto-digest-bot (src/main.py): the RSS aggregation           *)
(* get_recent_news, the summarization call generate_digest and the three   *)
(* command handlers cmd_digest, cmd_digest_12h and cmd_digest_6h.          *)
(*                                                                         *)
(* Time is counted in whole hours.  A text is known by its length and a    *)
(* slice text[i:j] by the pair of offsets it covers, so that a loss, a     *)
(* duplication or a reordering of characters shows as a gap, an overlap or *)
(* a disorder of offsets.  All state is kept per request (the domain of    *)
(* pc), because every variable of the code is a local of one call.         *)
(***************************************************************************)
EXTENDS Integers, Sequences, FiniteSets, TLC

VARIABLES
    cmd,            \* request -> the command that was issued
    feeds,          \* request -> source index -> what feedparser.parse gives
    now,            \* datetime.now(), in hours
    pc,             \* request -> position in the handler / in get_recent_news
    started,        \* request -> datetime.now() as read for time_threshold
    time_threshold, \* request -> None or <<instant>>
    idx,            \* request -> index in RSS_FEEDS of the next source
    news_items,     \* request -> items appended so far, in append order
    news,           \* request -> the list get_recent_news returned
    status_msg,     \* request -> what the status message shows
    digest_text,    \* request -> what generate_digest returned
    llm_calls,      \* request -> number of calls of client.chat.completions.create
    prompt,         \* request -> items serialized into the prompt of the call
    simple_digest,  \* request -> items listed by the fallback text
    parts,          \* request -> messages still to be sent
    sent,           \* request -> messages delivered by message.answer, in order
    faults,         \* request -> number of transport calls that raised
    send_fault,     \* request -> None, or <<number of messages sent before the
                    \*            message.answer that raised>>
    stale_edits     \* request -> edits attempted on the deleted status message

vars == <<cmd, feeds, now, pc, started, time_threshold, idx, news_items, news,
          status_msg, digest_text, llm_calls, prompt, simple_digest, parts, sent,
          faults, send_fault, stale_edits>>

aggVars == <<started, time_threshold, idx, news_items, news>>
chatVars == <<status_msg, digest_text, llm_calls, prompt, simple_digest, parts, sent,
              faults, send_fault, stale_edits>>

----------------------------------------------------------------------------
(* Bounds of the model *)

NumFeeds == 2       \* sources in RSS_FEEDS (the code lists five)
MaxEntries == 1     \* entries of a freely chosen feed document
MaxTicks == 1       \* hours the clock may advance during a run
StartTime == 50     \* the clock when a run starts
MaxParts == 2       \* generated texts reach MaxParts * ChunkLimit + 1 characters

(* Constants of the program *)

ChunkLimit == 4096      \* message size limit used by the handlers
PromptItems == 20       \* news_data[:20] in generate_digest
FallbackItems == 10     \* news[:10] in the fallback lists
LimitDigest == 15       \* limit_per_feed passed by cmd_digest
LimitWindowed == 10     \* limit_per_feed passed by cmd_digest_12h, cmd_digest_6h
Hours12 == 12
Hours6 == 6

None == <<>>
Some(x) == <<x>>

Min(a, b) == IF a <= b THEN a ELSE b

Commands == {"digest", "digest12", "digest6"}

RSS_FEEDS == 1..NumFeeds

(* The arguments each handler passes to get_recent_news. *)
HoursOf(c) ==
    CASE c = "digest" -> None
      [] c = "digest12" -> Some(Hours12)
      [] c = "digest6" -> Some(Hours6)

LimitOf(c) == IF c = "digest" THEN LimitDigest ELSE LimitWindowed

----------------------------------------------------------------------------
(* Feed documents.  feedparser.parse either raises, never completes, or   *)
(* gives a document with a list of entries.  An entry is a record that    *)
(* has only the attributes the feed supplied with a value (hasattr and a  *)
(* true value, lines 95 and 97).                                          *)

Raise == [status |-> "raise"]
Hang == [status |-> "hang"]
Ok(es) == [status |-> "ok", entries |-> es]

HasAttr(e, a) == a \in DOMAIN e

(* datetime.isoformat(): fixed-width digits, most significant first. *)
IsoFormat(t) == <<t \div 10, t % 10>>
IsoValue(s) == s[1] * 10 + s[2]

(* Python's < on strings: lexicographic. *)
RECURSIVE StrLess(_, _)
StrLess(a, b) ==
    IF b = <<>> THEN FALSE
    ELSE IF a = <<>> THEN TRUE
    ELSE IF Head(a) # Head(b) THEN Head(a) < Head(b)
    ELSE StrLess(Tail(a), Tail(b))

(* Lines 94-100: published_parsed, else updated_parsed, else now. *)
ResolvePubtimeEpoch(e, clock) ==
    IF HasAttr(e, "published_parsed") THEN e.published_parsed
    ELSE IF HasAttr(e, "updated_parsed") THEN e.updated_parsed
    ELSE 0

ResolvePubtime(e, clock) ==
    IF HasAttr(e, "published_parsed") THEN e.published_parsed
    ELSE IF HasAttr(e, "updated_parsed") THEN e.updated_parsed
    ELSE clock

(* Line 103: the entry is skipped iff a threshold is set and pubtime < it. *)
PassesFilterNone(pubtime, thr) == TRUE
PassesFilter(pubtime, thr) == thr = None \/ ~(pubtime < thr[1])

(* An entry whose processing raises inside the inner try (lines 92-117). *)
EntryRaises(e) == HasAttr(e, "raises")

(* entry.get('title', <default title>), entry.get('link', '') *)
TitleOf(e) == IF HasAttr(e, "title") THEN e.title ELSE "Bez zagolovka"
LinkOf(e) == IF HasAttr(e, "link") THEN e.link ELSE ""

(* Lines 107-113.  url and position record where the item came from; the  *)
(* code keeps neither.                                                     *)
NewsItem(e, u, k, pubtime) ==
    [title |-> TitleOf(e), link |-> LinkOf(e), source |-> u,
     published |-> IsoFormat(pubtime), url |-> u, position |-> k]

(* feed.entries[:limit_per_feed] *)
CapSliceAll(es, limit) == es
CapSlice(es, limit) == SubSeq(es, 1, Min(limit, Len(es)))

(* Lines 115-117: the error of one entry is logged and the inner loop   *)
(* goes on with the entries behind it.                                   *)
AbortSource(rest) == <<>>
SkipEntry(rest) == rest

(* The inner loop, lines 91-117, from entry k on. *)
RECURSIVE CollectEntries(_, _, _, _, _)
CollectEntries(es, k, u, thr, clock) ==
    IF k > Len(es) THEN <<>>
    ELSE LET e == es[k]
             rest == CollectEntries(es, k + 1, u, thr, clock)
         IN IF EntryRaises(e) THEN SkipEntry(rest)
            ELSE IF ~PassesFilter(ResolvePubtime(e, clock), thr) THEN rest
            ELSE <<NewsItem(e, u, k, ResolvePubtime(e, clock))>> \o rest

(* One iteration of the outer loop, lines 80-121: what the source adds. *)
SourceItems(doc, u, limit, thr, clock) ==
    IF doc.status = "raise" THEN <<>>
    ELSE IF doc.entries = <<>> THEN <<>>
    ELSE CollectEntries(CapSlice(doc.entries, limit), 1, u, thr, clock)

(* Lines 119-121: the error of one source is logged and the loop goes on  *)
(* with the next source.                                                   *)
NextSourceAbort(i) == NumFeeds + 1
NextSource(i) == i + 1

(* sorted(news_items, key=published, reverse=True): stable, descending.   *)
RECURSIVE InsertDesc(_, _)
InsertDesc(x, s) ==
    IF s = <<>> THEN <<x>>
    ELSE IF StrLess(Head(s).published, x.published) THEN <<x>> \o s
    ELSE <<Head(s)>> \o InsertDesc(x, Tail(s))

RECURSIVE SortedNews(_)
SortedNews(s) ==
    IF s = <<>> THEN <<>>
    ELSE InsertDesc(s[Len(s)], SortedNews(SubSeq(s, 1, Len(s) - 1)))

----------------------------------------------------------------------------
(* Inputs *)

RECURSIVE SeqsUpTo(_, _)
SeqsUpTo(S, n) ==
    IF n = 0 THEN {<<>>}
    ELSE LET shorter == SeqsUpTo(S, n - 1)
         IN shorter \cup {Append(s, x) : s \in {t \in shorter : Len(t) = n - 1}, x \in S}

(* Entries around the two windows: published exactly 6 hours ago, updated *)
(* exactly 12 hours ago and never published, and without any timestamp.   *)
Published6 == [published_parsed |-> StartTime - Hours6,
               updated_parsed |-> StartTime - Hours12 - 1,
               title |-> "A", link |-> "a"]
Updated12 == [updated_parsed |-> StartTime - Hours12, title |-> "B", link |-> "b"]
Undated == [title |-> "C", link |-> "c"]

WindowEntries == {Published6, Updated12, Undated}

(* A document with more entries than any per-source cap. *)
LongDoc(e) == Ok([k \in 1..(LimitDigest + 1) |-> e])

(* As many old entries as the cap of a windowed command lets through,   *)
(* with entries without timestamp behind them.                           *)
StaleThenFresh ==
    Ok([k \in 1..(LimitDigest + 1) |-> IF k <= LimitWindowed THEN Updated12 ELSE Undated])

DocsOver(E) ==
    {Raise, StaleThenFresh} \cup {LongDoc(e) : e \in E}
        \cup {Ok(es) : es \in SeqsUpTo(E, MaxEntries)}

----------------------------------------------------------------------------
(* get_recent_news *)

Upd(f, r, v) == [f EXCEPT ![r] = v]

Requests == DOMAIN pc

(* Request r is about to read the clock: at line 75 when a window is     *)
(* given, at line 100 when an entry of the next source has no timestamp.  *)
ReadsClock(r) ==
    \/ pc[r] = "call" /\ HoursOf(cmd[r]) # None
    \/ /\ pc[r] = "fetch"
       /\ idx[r] <= NumFeeds
       /\ feeds[r][idx[r]].status = "ok"
       /\ \E k \in 1..Len(feeds[r][idx[r]].entries) :
            /\ ~HasAttr(feeds[r][idx[r]].entries[k], "published_parsed")
            /\ ~HasAttr(feeds[r][idx[r]].entries[k], "updated_parsed")

(* The clock advances; its steps are taken where the next step reads it. *)
Tick ==
    /\ now < StartTime + MaxTicks
    /\ \E r \in Requests : ReadsClock(r)
    /\ now' = now + 1
    /\ UNCHANGED <<cmd, feeds, pc, aggVars, chatVars>>

(* news_items is a local of the call (line 74): each call appends to and *)
(* returns the list it created itself.                                    *)
SharedList(lists, r) == lists[1]
OwnList(lists, r) == lists[r]

(* Lines 74-77. *)
CallGetRecentNews(r) ==
    /\ pc[r] = "call"
    /\ started' = Upd(started, r, IF HoursOf(cmd[r]) # None THEN now ELSE started[r])
    /\ time_threshold' = Upd(time_threshold, r,
            IF HoursOf(cmd[r]) # None THEN Some(now - HoursOf(cmd[r])[1]) ELSE None)
    /\ news_items' = Upd(news_items, r, <<>>)
    /\ idx' = Upd(idx, r, 1)
    /\ pc' = Upd(pc, r, "fetch")
    /\ UNCHANGED <<cmd, feeds, now, news, chatVars>>

(* Lines 79-121, one source.  A source whose fetch never completes gives  *)
(* no step: feedparser.parse is called without a timeout.                 *)
FetchSource(r) ==
    /\ pc[r] = "fetch"
    /\ idx[r] <= NumFeeds
    /\ LET doc == feeds[r][idx[r]] IN
        /\ doc.status # "hang"
        /\ news_items' = Upd(news_items, r, OwnList(news_items, r) \o
                SourceItems(doc, idx[r], LimitOf(cmd[r]), time_threshold[r], now))
        /\ idx' = Upd(idx, r, IF doc.status = "raise" THEN NextSource(idx[r])
                                                      ELSE idx[r] + 1)
    /\ UNCHANGED <<cmd, feeds, now, pc, started, time_threshold, news, chatVars>>

(* Lines 123-124. *)
ReturnNews(r) ==
    /\ pc[r] = "fetch"
    /\ idx[r] > NumFeeds
    /\ news' = Upd(news, r, SortedNews(OwnList(news_items, r)))
    /\ pc' = Upd(pc, r, "returned")
    /\ UNCHANGED <<cmd, feeds, now, started, time_threshold, idx, news_items, chatVars>>

----------------------------------------------------------------------------
(* generate_digest and the delivery of its result *)

(* What client.chat.completions.create does: it raises, or it answers    *)
(* with a content that is None or a string of some length.                *)
TextLens ==
    {0, 1} \cup {k * ChunkLimit + d : k \in 1..MaxParts, d \in {-1, 0, 1}}

LLMOutcomes ==
    {[kind |-> "raise"], [kind |-> "none"]} \cup
    {[kind |-> "content", len |-> n] : n \in TextLens}

(* Lines 163-176: the content on success, None on any exception. *)
DigestOf(out) == IF out.kind = "content" THEN Some(out.len) ELSE None

(* Truth value of digest_text: None and the empty string are false. *)
IsTruthy(text) == text # None /\ text[1] > 0

(* news_data[:20], line 135 *)
PromptOfAll(news_data) == news_data
PromptOf(news_data) == SubSeq(news_data, 1, Min(PromptItems, Len(news_data)))

(* text[i:j] of a text of n characters, as the offsets it covers. *)
Slice(kind, n, i, j) == [kind |-> kind, lo |-> Min(i, n), hi |-> Min(j, n)]

(* [text[i:i+4096] for i in range(0, len(text), 4096)] *)
Chunks(kind, n) ==
    [k \in 1..((n + ChunkLimit - 1) \div ChunkLimit) |->
        Slice(kind, n, (k - 1) * ChunkLimit, (k - 1) * ChunkLimit + ChunkLimit)]

(* The messages a handler sends for a generated text of n characters:    *)
(* lines 218-225, 267-273, 307-311.  cmd_digest_6h has no else branch: a  *)
(* text of at most 4096 characters is not sent.                           *)
DigestParts(c, n) ==
    IF n > ChunkLimit THEN Chunks("digest", n)
    ELSE IF c = "digest6" THEN <<>>
    ELSE <<Slice("digest", n, 0, n)>>

(* The messages a handler sends when digest_text is false, the fallback   *)
(* text having m characters: lines 226-238 and 274-278.  src/main.py ends *)
(* at line 311, inside cmd_digest_6h, which has no such branch.           *)
FallbackParts(c, m) ==
    CASE c = "digest" ->
            IF m > ChunkLimit THEN Chunks("fallback", m)
            ELSE <<Slice("fallback", m, 0, m)>>
      [] c = "digest12" -> <<Slice("fallback", m, 0, ChunkLimit)>>
      [] c = "digest6" -> <<>>

(* The items the fallback text lists: news[:10]. *)
FallbackList(c, n) ==
    IF c = "digest6" THEN <<>> ELSE SubSeq(n, 1, Min(FallbackItems, Len(n)))

(* Lengths of the fallback text; the length depends on the lengths of    *)
(* the links and source names, which the model leaves open.               *)
FallbackLens == {ChunkLimit, ChunkLimit + 1}

(* Where an exception raised inside the try block goes: to the except     *)
(* clause of cmd_digest and cmd_digest_12h (lines 240, 280); the source   *)
(* of cmd_digest_6h has no except clause.                                 *)
OnException(c) == IF c = "digest6" THEN "raised" ELSE "except"

(* The reply of "if not news" (lines 200-208, 253-258, 293-298). *)
NoNewsReply(c) == <<"nonews", c>>

(* "if not news" *)
IsEmptyNever(n) == FALSE
IsEmpty(n) == n = <<>>

(* Lines 194, 247, 287: the status message is sent before the try. *)
Start(r) ==
    /\ pc[r] = "idle"
    /\ \E ok \in BOOLEAN :
        IF ok
        THEN /\ status_msg' = Upd(status_msg, r, <<"collecting", cmd[r]>>)
             /\ pc' = Upd(pc, r, "call")
             /\ UNCHANGED faults
        ELSE /\ faults' = Upd(faults, r, faults[r] + 1)
             /\ pc' = Upd(pc, r, "raised")
             /\ UNCHANGED status_msg
    /\ UNCHANGED <<cmd, feeds, now, aggVars, digest_text, llm_calls, prompt,
                   simple_digest, parts, sent, send_fault, stale_edits>>

(* Lines 200-211: the reply on an empty list, else the progress note. *)
CheckNews(r) ==
    /\ pc[r] = "returned"
    /\ \E ok \in BOOLEAN :
        IF ok
        THEN /\ status_msg' = Upd(status_msg, r,
                    IF IsEmpty(news[r]) THEN NoNewsReply(cmd[r])
                                        ELSE <<"analyzing", cmd[r]>>)
             /\ pc' = Upd(pc, r, IF IsEmpty(news[r]) THEN "done" ELSE "generate")
             /\ UNCHANGED faults
        ELSE /\ faults' = Upd(faults, r, faults[r] + 1)
             /\ pc' = Upd(pc, r, OnException(cmd[r]))
             /\ UNCHANGED status_msg
    /\ UNCHANGED <<cmd, feeds, now, aggVars, digest_text, llm_calls, prompt,
                   simple_digest, parts, sent, send_fault, stale_edits>>

(* Lines 214-216: whatever generate_digest returned, the handler goes on *)
(* to delete the status message; nothing leads back to the call.         *)
AfterSummaryRetry(text) == IF text = None THEN "generate" ELSE "delete"
AfterSummary(text) == "delete"

(* generate_digest, lines 126-176. *)
GenerateDigest(r) ==
    /\ pc[r] = "generate"
    /\ IF news[r] = <<>>
       THEN /\ digest_text' = Upd(digest_text, r, None)
            /\ UNCHANGED <<llm_calls, prompt>>
       ELSE \E out \in LLMOutcomes :
            /\ prompt' = Upd(prompt, r, PromptOf(news[r]))
            /\ llm_calls' = Upd(llm_calls, r, llm_calls[r] + 1)
            /\ digest_text' = Upd(digest_text, r, DigestOf(out))
    /\ pc' = Upd(pc, r, AfterSummary(digest_text'[r]))
    /\ UNCHANGED <<cmd, feeds, now, aggVars, status_msg, simple_digest, parts, sent,
                   faults, send_fault, stale_edits>>

(* Lines 216-238: the status message is deleted and the messages to send *)
(* are prepared.                                                           *)
DeleteStatus(r) ==
    /\ pc[r] = "delete"
    /\ \E ok \in BOOLEAN :
        IF ~ok
        THEN /\ faults' = Upd(faults, r, faults[r] + 1)
             /\ pc' = Upd(pc, r, OnException(cmd[r]))
             /\ UNCHANGED <<status_msg, simple_digest, parts>>
        ELSE /\ status_msg' = Upd(status_msg, r, <<"deleted", cmd[r]>>)
             /\ UNCHANGED faults
             /\ IF IsTruthy(digest_text[r])
                THEN /\ parts' = Upd(parts, r, DigestParts(cmd[r], digest_text[r][1]))
                     /\ UNCHANGED simple_digest
                ELSE \E m \in FallbackLens :
                     /\ simple_digest' = Upd(simple_digest, r,
                                              FallbackList(cmd[r], news[r]))
                     /\ parts' = Upd(parts, r, FallbackParts(cmd[r], m))
             /\ pc' = Upd(pc, r, IF parts'[r] = <<>> THEN "done" ELSE "send")
    /\ UNCHANGED <<cmd, feeds, now, aggVars, digest_text, llm_calls, prompt, sent,
                   send_fault, stale_edits>>

(* One await message.answer(part). *)
SendPart(r) ==
    /\ pc[r] = "send"
    /\ \E ok \in BOOLEAN :
        IF ok
        THEN /\ sent' = Upd(sent, r, Append(sent[r], Head(parts[r])))
             /\ parts' = Upd(parts, r, Tail(parts[r]))
             /\ pc' = Upd(pc, r, IF Tail(parts[r]) = <<>> THEN "done" ELSE "send")
             /\ UNCHANGED <<faults, send_fault>>
        ELSE /\ faults' = Upd(faults, r, faults[r] + 1)
             /\ send_fault' = Upd(send_fault, r, Some(Len(sent[r])))
             /\ pc' = Upd(pc, r, OnException(cmd[r]))
             /\ UNCHANGED <<sent, parts>>
    /\ UNCHANGED <<cmd, feeds, now, aggVars, status_msg, digest_text, llm_calls,
                   prompt, simple_digest, stale_edits>>

(* Lines 240-242 and 280-282: the error is written into the status       *)
(* message.  The chat rejects the edit of a message that was deleted, and *)
(* the exception leaves the handler.                                      *)
HandleException(r) ==
    /\ pc[r] = "except"
    /\ stale_edits' = Upd(stale_edits, r,
            IF status_msg[r][1] = "deleted" THEN stale_edits[r] + 1 ELSE stale_edits[r])
    /\ \E ok \in BOOLEAN :
        IF ok /\ status_msg[r][1] # "deleted"
        THEN /\ status_msg' = Upd(status_msg, r, <<"error", cmd[r]>>)
             /\ pc' = Upd(pc, r, "done")
             /\ UNCHANGED faults
        ELSE /\ pc' = Upd(pc, r, "raised")
             /\ faults' = Upd(faults, r, faults[r] + 1)
             /\ UNCHANGED status_msg
    /\ UNCHANGED <<cmd, feeds, now, aggVars, digest_text, llm_calls, prompt,
                   simple_digest, parts, sent, send_fault>>

----------------------------------------------------------------------------
(* get_recent_news called on its own, with the arguments of a handler. *)

InitState(R, start) ==
    /\ now = StartTime
    /\ pc = [r \in R |-> start]
    /\ started = [r \in R |-> StartTime]
    /\ time_threshold = [r \in R |-> None]
    /\ idx = [r \in R |-> 1]
    /\ news_items = [r \in R |-> <<>>]
    /\ news = [r \in R |-> <<>>]
    /\ status_msg = [r \in R |-> <<"absent", cmd[r]>>]
    /\ digest_text = [r \in R |-> None]
    /\ llm_calls = [r \in R |-> 0]
    /\ prompt = [r \in R |-> <<>>]
    /\ simple_digest = [r \in R |-> <<>>]
    /\ parts = [r \in R |-> <<>>]
    /\ sent = [r \in R |-> <<>>]
    /\ faults = [r \in R |-> 0]
    /\ send_fault = [r \in R |-> None]
    /\ stale_edits = [r \in R |-> 0]

(* Requests R, each with a command and documents of D of its own. *)
InitOver(R, D, start) ==
    /\ cmd \in [R -> Commands]
    /\ feeds \in [R -> [RSS_FEEDS -> D]]
    /\ InitState(R, start)

InitAgg == InitOver({1}, DocsOver(WindowEntries), "call")

NextAgg ==
    \/ Tick
    \/ \E r \in Requests : CallGetRecentNews(r)
    \/ \E r \in Requests : FetchSource(r)
    \/ \E r \in Requests : ReturnNews(r)

SpecAgg == InitAgg /\ [][NextAgg]_vars

(* A few documents, one of which never arrives.  The thread that runs  *)
(* get_recent_news is scheduled as long as it has a step to take.         *)
HangDocs == {Raise, Hang} \cup {Ok(es) : es \in SeqsUpTo(WindowEntries, 1)}

InitHang == InitOver({1}, HangDocs, "call")

FairSpecHang ==
    /\ InitHang /\ [][NextAgg]_vars
    /\ \A r \in {1} : WF_vars(CallGetRecentNews(r))
    /\ \A r \in {1} : WF_vars(FetchSource(r))
    /\ \A r \in {1} : WF_vars(ReturnNews(r))

(* Entries published at the same instant under different titles. *)
TitledA == [published_parsed |-> StartTime - 1, title |-> "A", link |-> "a"]
TitledB == [published_parsed |-> StartTime - 1, title |-> "B", link |-> "b"]
Earlier == [published_parsed |-> StartTime - 2, title |-> "A", link |-> "c"]

TieEntries == {TitledA, TitledB, Earlier}

SortDocs == {Ok(es) : es \in SeqsUpTo(TieEntries, MaxEntries + 1)}

InitSort == InitOver({1}, SortDocs, "call")

SpecSort == InitSort /\ [][NextAgg]_vars

(* Entries of different make: without title and link, failing while it  *)
(* is processed (a published_parsed that time.mktime rejects), and with *)
(* everything in place.  All of them are younger than any window.        *)
Bare == [published_parsed |-> StartTime - 1]
Faulty == [raises |-> TRUE, published_parsed |-> StartTime - 1,
           title |-> "A", link |-> "a"]
Complete == [published_parsed |-> StartTime - 2, title |-> "B", link |-> "b"]

ShapeEntries == {Bare, Faulty, Complete}

ShapeDocs == {Raise} \cup {Ok(es) : es \in SeqsUpTo(ShapeEntries, MaxEntries + 1)}

InitShape == InitOver({1}, ShapeDocs, "call")

SpecShape == InitShape /\ [][NextAgg]_vars

(* get_recent_news called twice, once by each of two requests that   *)
(* carry the same command and are served the same documents.  The two  *)
(* calls run in threads of their own and read the one clock.            *)
TwiceDocs == {Raise} \cup {Ok(es) : es \in SeqsUpTo(WindowEntries, MaxEntries)}

InitTwice ==
    /\ \E c \in Commands : cmd = [r \in {1, 2} |-> c]
    /\ \E f \in [RSS_FEEDS -> TwiceDocs] : feeds = [r \in {1, 2} |-> f]
    /\ InitState({1, 2}, "call")

SpecTwice == InitTwice /\ [][NextAgg]_vars

(* Two digest commands in flight at once, every await and every source  *)
(* of either one a step of its own.  The sources answer each request    *)
(* with entries that the other request is never served.                  *)
OwnEntry(r) == IF r = 1 THEN Published6 ELSE Updated12

InitPair ==
    /\ cmd \in [{1, 2} -> Commands]
    /\ feeds = [r \in {1, 2} |-> [u \in RSS_FEEDS |-> Ok(<<OwnEntry(r)>>)]]
    /\ InitState({1, 2}, "idle")

(* A digest command from the arrival of the message on.  The documents  *)
(* are a failing, a hanging, an empty, a one-entry and a long one.        *)
HandlerDocs ==
    {Raise, Hang, Ok(<<>>), Ok(<<Published6>>), Ok(<<Updated12>>), LongDoc(Undated)}

Init == InitOver({1}, HandlerDocs, "idle")

Next ==
    \/ Tick
    \/ \E r \in Requests : Start(r)
    \/ \E r \in Requests : CallGetRecentNews(r)
    \/ \E r \in Requests : FetchSource(r)
    \/ \E r \in Requests : ReturnNews(r)
    \/ \E r \in Requests : CheckNews(r)
    \/ \E r \in Requests : GenerateDigest(r)
    \/ \E r \in Requests : DeleteStatus(r)
    \/ \E r \in Requests : SendPart(r)
    \/ \E r \in Requests : HandleException(r)

Spec == Init /\ [][Next]_vars

SpecPair == InitPair /\ [][Next]_vars

----------------------------------------------------------------------------
(* Vocabulary of the properties, stated on the inputs and the outputs. *)

Returned(r) == pc[r] = "returned"

(* The entries of source u the per-source cap lets through. *)
CappedPositions(r, u) ==
    IF feeds[r][u].status = "ok"
    THEN 1..Min(LimitOf(cmd[r]), Len(feeds[r][u].entries))
    ELSE {}

EntryAt(r, u, k) == feeds[r][u].entries[k]

IsDated(e) == HasAttr(e, "published_parsed") \/ HasAttr(e, "updated_parsed")

Timestamp(e) ==
    IF HasAttr(e, "published_parsed") THEN e.published_parsed ELSE e.updated_parsed

(* The earliest instant the window of request r admits. *)
WindowStart(r) == started[r] - HoursOf(cmd[r])[1]

InWindow(r, e) ==
    \/ HoursOf(cmd[r]) = None
    \/ ~IsDated(e)
    \/ Timestamp(e) >= WindowStart(r)

HasItemFrom(r, u, k) ==
    \E i \in 1..Len(news[r]) : news[r][i].url = u /\ news[r][i].position = k

----------------------------------------------------------------------------
(* C1: when get_recent_news has returned, a source whose fetch or parse    *)
(* raised has no item in the result, and every entry of every other source *)
(* that is within the per-source cap and inside the time window is in the  *)
(* result, whichever sources raised.                                       *)
C1_FaultIsolation ==
    \A r \in Requests : Returned(r) =>
        /\ \A u \in RSS_FEEDS : feeds[r][u].status = "raise" =>
                \A i \in 1..Len(news[r]) : news[r][i].url # u
        /\ \A u \in RSS_FEEDS : \A k \in CappedPositions(r, u) :
                InWindow(r, EntryAt(r, u, k)) => HasItemFrom(r, u, k)

(* The first source raised and a later one still delivered its items. *)
C1_Witness ==
    \E r \in Requests :
        /\ Returned(r)
        /\ feeds[r][1].status = "raise"
        /\ \E u \in RSS_FEEDS : CappedPositions(r, u) # {} /\ HasItemFrom(r, u, 1)

(* C2: under a time window every returned item has a resolved timestamp   *)
(* at or after (now - window), now being the instant get_recent_news was  *)
(* entered; an entry without timestamp is resolved to the current time.   *)
C2_TimeWindow ==
    \A r \in Requests : (Returned(r) /\ HoursOf(cmd[r]) # None) =>
        \A i \in 1..Len(news[r]) : IsoValue(news[r][i].published) >= WindowStart(r)

(* A windowed run that kept one entry and filtered another one out. *)
C2_Witness ==
    \E r \in Requests :
        /\ Returned(r)
        /\ HoursOf(cmd[r]) # None
        /\ news[r] # <<>>
        /\ \E u \in RSS_FEEDS : \E k \in CappedPositions(r, u) : ~HasItemFrom(r, u, k)

(* The handler ran to its end and no call to the chat raised. *)
Completed(r) == pc[r] = "done" /\ faults[r] = 0

Delivered(r, kind) == \E i \in 1..Len(sent[r]) : sent[r][i].kind = kind

InNews(r, item) == \E i \in 1..Len(news[r]) : news[r][i] = item

(* C3: for each of the three commands, when the aggregated list is not    *)
(* empty and the summarization call fails or answers nothing usable, the  *)
(* request delivers a fallback list that is not empty and lists only      *)
(* items of the aggregated list.                                          *)
C3_FallbackOnFailure ==
    \A r \in Requests :
        (Completed(r) /\ news[r] # <<>> /\ ~IsTruthy(digest_text[r])) =>
            /\ Delivered(r, "fallback")
            /\ simple_digest[r] # <<>>
            /\ \A i \in 1..Len(simple_digest[r]) : InNews(r, simple_digest[r][i])

(* C4: a request that runs to completion delivers exactly one of the      *)
(* generated text, the fallback list and the no-news reply.               *)
FormsDelivered(r) ==
    {k \in {"digest", "fallback"} : Delivered(r, k)} \cup
    (IF status_msg[r] = NoNewsReply(cmd[r]) THEN {"nonews"} ELSE {})

C4_ExactlyOneForm ==
    \A r \in Requests : Completed(r) => Cardinality(FormsDelivered(r)) = 1

(* C5: for a generated text of any length and for every command, the      *)
(* messages sent, joined in the order they were sent, are the text: they  *)
(* start at its first character, each starts where the one before ended,  *)
(* and the last ends at its last character.                                *)
Reproduces(msgs, n) ==
    /\ msgs # <<>>
    /\ \A i \in 1..Len(msgs) : msgs[i].kind = "digest" /\ msgs[i].lo <= msgs[i].hi
    /\ msgs[1].lo = 0
    /\ \A i \in 1..(Len(msgs) - 1) : msgs[i + 1].lo = msgs[i].hi
    /\ msgs[Len(msgs)].hi = n

C5_ChunkRoundTrip ==
    \A r \in Requests : (Completed(r) /\ IsTruthy(digest_text[r])) =>
        Reproduces(sent[r], digest_text[r][1])

(* C6: when no item survives aggregation and filtering, no summarization  *)
(* call is made, and the request ends with the no-news reply of its       *)
(* command, not with the error reply.                                      *)
C6_EmptyMakesNoCall ==
    \A r \in Requests :
        /\ news[r] = <<>> => llm_calls[r] = 0
        /\ (Completed(r) /\ news[r] = <<>>) =>
                status_msg[r] = NoNewsReply(cmd[r]) /\ sent[r] = <<>>

(* Every entry the cap let through was filtered out by the window. *)
C6_Witness ==
    \E r \in Requests :
        /\ Completed(r)
        /\ news[r] = <<>>
        /\ status_msg[r] = NoNewsReply(cmd[r])
        /\ \E u \in RSS_FEEDS : CappedPositions(r, u) # {}

(* C7: if the fetch of one source never completes, get_recent_news still  *)
(* eventually returns.                                                     *)
C7_HangingSourceReturns ==
    (\E u \in RSS_FEEDS : feeds[1][u].status = "hang") ~> Returned(1)

(* C8: within one command, the reply after a failed aggregation (every   *)
(* source raised) differs from the reply the command gives when every     *)
(* source was fetched and no item survived, which is its no-news reply.   *)
AggregationFailed(r) == \A u \in RSS_FEEDS : feeds[r][u].status = "raise"

C8_EmptyVersusFailed ==
    \A r \in Requests : (Completed(r) /\ AggregationFailed(r)) =>
        status_msg[r] # NoNewsReply(cmd[r])

(* C9: the list get_recent_news returns holds at most 20 items. *)
C9_TotalCap ==
    \A r \in Requests : Returned(r) => Len(news[r]) <= PromptItems

(* C10: the returned list is ordered by published timestamp, descending,  *)
(* and items with equal timestamps are ordered by title (in one direction *)
(* throughout the list).                                                   *)
TitleRank(t) == CASE t = "A" -> 1 [] t = "B" -> 2 [] t = "C" -> 3 [] OTHER -> 0

TiesInTitleOrder(s, ascending) ==
    \A i, j \in 1..Len(s) : (i < j /\ s[i].published = s[j].published) =>
        IF ascending THEN TitleRank(s[i].title) <= TitleRank(s[j].title)
                     ELSE TitleRank(s[i].title) >= TitleRank(s[j].title)

C10_SortOrder ==
    \A r \in Requests : Returned(r) =>
        /\ \A i, j \in 1..Len(news[r]) : i < j =>
                IsoValue(news[r][i].published) >= IsoValue(news[r][j].published)
        /\ TiesInTitleOrder(news[r], TRUE) \/ TiesInTitleOrder(news[r], FALSE)

----
(* C11: two runs of the aggregation over the same documents, with the   *)
(* same window and cap and hence the same threshold, return the same   *)
(* sequence of items.                                                    *)
SameInputs(a, b) ==
    /\ cmd[a] = cmd[b]
    /\ feeds[a] = feeds[b]
    /\ time_threshold[a] = time_threshold[b]

C11_DeterministicOutput ==
    \A a \in Requests : \A b \in Requests :
        (Returned(a) /\ Returned(b) /\ SameInputs(a, b)) => news[a] = news[b]

----
(* C12: when two digest commands are served concurrently, every item a   *)
(* request gets from its aggregation, puts into its prompt or lists in   *)
(* its fallback text was made by its own aggregation from an entry it    *)
(* was served itself; nothing of the other request shows up in it.       *)
OwnItem(r, item) ==
    \E u \in RSS_FEEDS : \E k \in CappedPositions(r, u) :
        /\ item.url = u /\ item.position = k
        /\ item.title = TitleOf(EntryAt(r, u, k))
        /\ item.link = LinkOf(EntryAt(r, u, k))

OnlyOwnItems(r, items) == \A i \in 1..Len(items) : OwnItem(r, items[i])

C12_RequestIsolation ==
    \A r \in Requests :
        /\ OnlyOwnItems(r, news[r])
        /\ OnlyOwnItems(r, prompt[r])
        /\ OnlyOwnItems(r, simple_digest[r])

(* Both requests are between the return of their aggregation and the    *)
(* end of the handler, one of them having delivered, with items each.   *)
C12_Witness ==
    /\ Cardinality(Requests) = 2
    /\ \A r \in Requests : news[r] # <<>>
    /\ \E a \in Requests : \E b \in Requests :
        /\ a # b
        /\ prompt[a] # <<>> /\ sent[a] # <<>>
        /\ pc[b] = "generate"

----
(* C13: no item get_recent_news returns is without title and without    *)
(* link at once (missing or empty, the title possibly replaced by the   *)
(* stand-in for a missing title), and an entry that has neither title   *)
(* nor link has no item in the result.                                   *)
Untitled == TitleOf(<<>>)

LacksText(e, a) == ~HasAttr(e, a) \/ e[a] = ""

C13_TitleOrLink ==
    \A r \in Requests : Returned(r) =>
        /\ \A i \in 1..Len(news[r]) :
              ~(news[r][i].link = "" /\ news[r][i].title \in {"", Untitled})
        /\ \A u \in RSS_FEEDS : \A k \in CappedPositions(r, u) :
              (LacksText(EntryAt(r, u, k), "title") /\ LacksText(EntryAt(r, u, k), "link"))
                  => ~HasItemFrom(r, u, k)

----
(* C14: when message.answer raises while cmd_digest or cmd_digest_12h    *)
(* sends a part of the digest or of the fallback text, the handler ends *)
(* with its error text shown to the user, and it has sent nothing after *)
(* the failure: the failed part is not sent again and the parts behind  *)
(* it are not sent.                                                      *)
Ended(r) == pc[r] \in {"done", "raised"}

C14_DeliveryFailureSurfaced ==
    \A r \in Requests :
        (cmd[r] \in {"digest", "digest12"} /\ send_fault[r] # None /\ Ended(r)) =>
            /\ status_msg[r] = <<"error", cmd[r]>>
            /\ Len(sent[r]) = send_fault[r][1]

----
(* C15: a request makes at most one summarization call, and once the    *)
(* call is made, failed or not, the handler is past the point of the    *)
(* call for good: what follows is the delivery, never a second call.    *)
BeforeDelivery == {"idle", "call", "fetch", "returned", "generate"}

C15_SingleAttempt ==
    \A r \in Requests :
        /\ llm_calls[r] <= 1
        /\ llm_calls[r] = 1 => pc[r] \notin BeforeDelivery

(* The one call failed and the fallback text went out. *)
C15_Witness ==
    \E r \in Requests :
        /\ llm_calls[r] = 1 /\ digest_text[r] = None
        /\ Completed(r) /\ Delivered(r, "fallback")

----
(* C19: once the status message is deleted, no later step of            *)
(* cmd_digest or cmd_digest_12h edits it, not even after an exception   *)
(* raised while a part is sent.                                          *)
C19_NoEditAfterDelete ==
    \A r \in Requests : stale_edits[r] = 0

----
(* C16: an entry with neither publish nor update timestamp that is      *)
(* within the per-source cap is in the result under every window: with  *)
(* no window, with 6 hours and with 12 hours.                            *)
C16_UndatedAlwaysKept ==
    \A r \in Requests : Returned(r) =>
        \A u \in RSS_FEEDS : \A k \in CappedPositions(r, u) :
            (~IsDated(EntryAt(r, u, k)) /\ ~HasAttr(EntryAt(r, u, k), "raises"))
                => HasItemFrom(r, u, k)

(* Under a window that removed a dated entry, an entry without          *)
(* timestamp was kept.                                                   *)
C16_Witness ==
    \E r \in Requests :
        /\ Returned(r) /\ HoursOf(cmd[r]) # None
        /\ \E u \in RSS_FEEDS : \E k \in CappedPositions(r, u) :
              ~IsDated(EntryAt(r, u, k)) /\ HasItemFrom(r, u, k)
        /\ \E u \in RSS_FEEDS : \E k \in CappedPositions(r, u) :
              IsDated(EntryAt(r, u, k)) /\ ~HasItemFrom(r, u, k)

----
(* C17: the result holds at most limit_per_feed items of each source,   *)
(* and none of them comes from an entry behind the first limit_per_feed *)
(* entries of its document, whatever the time filter removed.            *)
ItemsOf(r, u) == {i \in 1..Len(news[r]) : news[r][i].url = u}

C17_PerSourceCap ==
    \A r \in Requests : Returned(r) =>
        /\ \A u \in RSS_FEEDS : Cardinality(ItemsOf(r, u)) <= LimitOf(cmd[r])
        /\ \A i \in 1..Len(news[r]) : news[r][i].position <= LimitOf(cmd[r])

(* The time filter removed every entry within the cap of a source whose *)
(* document has an entry inside the window behind the cap.               *)
C17_Witness ==
    \E r \in Requests : \E u \in RSS_FEEDS :
        /\ Returned(r) /\ HoursOf(cmd[r]) # None
        /\ feeds[r][u].status = "ok"
        /\ Len(feeds[r][u].entries) > LimitOf(cmd[r])
        /\ InWindow(r, EntryAt(r, u, LimitOf(cmd[r]) + 1))
        /\ ItemsOf(r, u) = {}

----
(* C18: the prompt of the summarization call lists the first 20 items   *)
(* of the aggregated list, in the order of the list, and all of them    *)
(* when the list has fewer.                                              *)
C18_PromptBound ==
    \A r \in Requests : llm_calls[r] = 1 =>
        /\ Len(prompt[r]) = Min(PromptItems, Len(news[r]))
        /\ \A i \in 1..Len(prompt[r]) : prompt[r][i] = news[r][i]

C18_Witness ==
    \E r \in Requests : llm_calls[r] = 1 /\ Len(news[r]) > PromptItems

----
(* C20: an entry whose processing raises has no item in the result, and *)
(* every other entry within the cap and the window has exactly one,     *)
(* those of the same source included.                                    *)
Fails(e) == HasAttr(e, "raises")

C20_EntryFaultIsolation ==
    \A r \in Requests : Returned(r) =>
        \A u \in RSS_FEEDS :
            /\ \A k \in CappedPositions(r, u) :
                  HasItemFrom(r, u, k) <=>
                      (~Fails(EntryAt(r, u, k)) /\ InWindow(r, EntryAt(r, u, k)))
            /\ Cardinality(ItemsOf(r, u)) =
                  Cardinality({k \in CappedPositions(r, u) : HasItemFrom(r, u, k)})

(* A source whose first entry raised and whose second entry is in the   *)
(* result, next to an entry of another source.                           *)
C20_Witness ==
    \E r \in Requests : \E u \in RSS_FEEDS : \E v \in RSS_FEEDS :
        /\ Returned(r) /\ u # v
        /\ 2 \in CappedPositions(r, u)
        /\ Fails(EntryAt(r, u, 1)) /\ HasItemFrom(r, u, 2)
        /\ ItemsOf(r, v) # {}

====
